---- MODULE Spec2Model ----
(***************************************************************************)
(* CTR drawing generator (src/app.py): the text parser                     *)
(* parse_multi_sheet_txt and the page layout loop of                       *)
(* process_multi_sheet_pdf.                                                *)
(*                                                                         *)
(* A Python str is a sequence of one-character strings.  A dict object is  *)
(* a cell of `heap`, and a variable holding a dict holds the cell's index, *)
(* so that aliasing and dict.copy() are distinguishable.  Lengths are in   *)
(* 1/254 pt, the unit in which the A3 page size and every layout constant  *)
(* of the program are whole numbers.                                       *)
(***************************************************************************)
EXTENDS Integers, Sequences, FiniteSets, TLC

VARIABLES
    pc,             \* position of the running function
    error,          \* "none", or the exception that ended the run
    raw_lines,      \* the lines of raw_text.splitlines() read so far
    heap,           \* the metadata dict objects
    current_meta,   \* parse_multi_sheet_txt: reference to the current dict
    current_rows,   \* parse_multi_sheet_txt: the accumulating row records
    sheets_data,    \* parse_multi_sheet_txt: the result list
    emitted,        \* history: the records each read line appended
    cuts,           \* history: for each finalized sheet, the index of the
                    \* line that finalized it (Len(raw_lines)+1 at the end)
    chunk,          \* process_multi_sheet_pdf: the chunk being drawn
    brackets,       \* the brackets drawn for `chunk`, per selector
    sheets_list,    \* process_multi_sheet_pdf: its argument
    si,             \* index of the sheet the outer loop is at
    groups,         \* groups of df.groupby('Row ID') still to draw
    terms,          \* the terminal records of the current group
    chunks,         \* the chunks of `terms`
    ci,             \* number of chunks of `chunks` drawn
    y_curr,         \* vertical cursor
    rows_on_page,   \* chunk rows drawn on the current page
    current_sheet_no, \* sheet number of the current page
    pages,          \* canvas: the pages ended by showPage()
    page,           \* canvas: what is drawn on the current page
    first_page      \* history: for each started sheet, its first page's index

parse_vars == <<raw_lines, heap, current_meta, current_rows, sheets_data, emitted, cuts>>
group_vars == <<chunk, brackets>>
pdf_vars == <<sheets_list, si, groups, terms, chunks, ci, y_curr, rows_on_page,
              current_sheet_no, pages, page, first_page>>
vars == <<pc, error, parse_vars, group_vars, pdf_vars>>

---------------------------------------------------------------------------
(* Characters and str methods                                              *)

LOWER == <<"a","b","c","d","e","f","g","h","i","j","k","l","m","n","o","p","q","r","s","t","u","v","w","x","y","z">>
UPPER == <<"A","B","C","D","E","F","G","H","I","J","K","L","M","N","O","P","Q","R","S","T","U","V","W","X","Y","Z">>
DIGITS == <<"0","1","2","3","4","5","6","7","8","9">>

Min(S) == CHOOSE x \in S : \A y \in S : x <= y
Max(S) == CHOOSE x \in S : \A y \in S : x >= y

IsSpace(c) == c \in {" ", "\t"}
DigitOf == [c \in {DIGITS[i] : i \in 1..10} |-> (CHOOSE i \in 1..10 : DIGITS[i] = c) - 1]
IsDigit(c) == c \in DOMAIN DigitOf
DigitVal(c) == DigitOf[c]

\* str.upper() on one character
UpperOf == [c \in {LOWER[i] : i \in 1..26} |-> UPPER[CHOOSE i \in 1..26 : LOWER[i] = c]]
upper_char(c) == IF c \in DOMAIN UpperOf THEN UpperOf[c] ELSE c

\* str.upper()
upper(s) == [i \in 1..Len(s) |-> upper_char(s[i])]

\* str.strip()
strip(s) ==
    LET keep == {i \in 1..Len(s) : ~IsSpace(s[i])}
    IN  IF keep = {} THEN <<>> ELSE SubSeq(s, Min(keep), Max(keep))

\* str.startswith(prefix)
startswith(s, prefix) ==
    /\ Len(s) >= Len(prefix)
    /\ SubSeq(s, 1, Len(prefix)) = prefix

\* str.split(sep) for a one-character separator
RECURSIVE split(_, _)
split(s, sep) ==
    LET at == {i \in 1..Len(s) : s[i] = sep}
    IN  IF at = {} THEN <<s>>
        ELSE <<SubSeq(s, 1, Min(at) - 1)>> \o split(SubSeq(s, Min(at) + 1, Len(s)), sep)

\* line.split(":", 1)[1].strip(), for a line that holds a colon
meta_value(line) ==
    LET at == {i \in 1..Len(line) : line[i] = ":"}
    IN  strip(SubSeq(line, Min(at) + 1, Len(line)))

\* ",".join(parts)
RECURSIVE join(_)
join(parts) ==
    IF Len(parts) = 0 THEN <<>>
    ELSE IF Len(parts) = 1 THEN parts[1]
    ELSE parts[1] \o <<",">> \o join(Tail(parts))

\* needle in haystack
contains(haystack, needle) ==
    \E i \in 1..(Len(haystack) - Len(needle) + 1) :
        SubSeq(haystack, i, i + Len(needle) - 1) = needle

IsDigits(s) == Len(s) > 0 /\ \A i \in 1..Len(s) : IsDigit(s[i])

\* int(s): the value of a decimal string, -1 where int() raises ValueError
RECURSIVE int(_)
int(s) ==
    IF ~IsDigits(s) THEN -1
    ELSE IF Len(s) = 1 THEN DigitVal(s[1])
    ELSE 10 * int(SubSeq(s, 1, Len(s) - 1)) + DigitVal(s[Len(s)])

\* str(i) for i >= 0
RECURSIVE str(_)
str(i) ==
    IF i < 10 THEN <<DIGITS[i + 1]>>
    ELSE str(i \div 10) \o <<DIGITS[(i % 10) + 1]>>

\* s.zfill(2)
zfill2_short(s) == s
zfill2(s) ==
    IF Len(s) >= 2 THEN s
    ELSE IF Len(s) = 1 THEN <<"0">> \o s
    ELSE <<"0", "0">>

---------------------------------------------------------------------------
(* Regular expressions                                                     *)

At(s, p) == IF p >= 1 /\ p <= Len(s) THEN s[p] ELSE ""

InClass(c, class) ==
    CASE class = "space" -> IsSpace(c)
      [] class = "digit" -> IsDigit(c)
      [] class = "label" -> c \notin {",", "["}

\* the end of the longest run of `class` characters starting at p
RECURSIVE Skip(_, _, _)
Skip(s, p, class) ==
    IF p <= Len(s) /\ InClass(s[p], class) THEN Skip(s, p + 1, class) ELSE p

\* re.search(r'\d+', line): the first run of digits, <<>> when there is none
first_digits(line) ==
    LET at == {i \in 1..Len(line) : IsDigit(line[i])}
    IN  IF at = {} THEN <<>>
        ELSE SubSeq(line, Min(at), Skip(line, Min(at), "digit") - 1)

\* the closing bracket of the range pattern
close_bracket_optional(s, q) == TRUE
close_bracket(s, q) == At(s, q) = "]"

\* one match attempt of ([^,\[]+)\[\s*(\d+)\s+to\s+(\d+)\s*\] at p, re.I.
\* The classes that meet are disjoint, so the greedy match never backtracks.
match_at(s, p) ==
    LET q1 == Skip(s, p, "label")
        q2 == Skip(s, q1 + 1, "space")
        q3 == Skip(s, q2, "digit")
        q4 == Skip(s, q3, "space")
        q5 == Skip(s, q4 + 2, "space")
        q6 == Skip(s, q5, "digit")
        q7 == Skip(s, q6, "space")
        ok == /\ q1 > p /\ At(s, q1) = "["
              /\ q3 > q2
              /\ q4 > q3
              /\ upper_char(At(s, q4)) = "T" /\ upper_char(At(s, q4 + 1)) = "O"
              /\ q5 > q4 + 2
              /\ q6 > q5
              /\ close_bracket(s, q7)
    IN  IF ok
        THEN [ok |-> TRUE, func |-> SubSeq(s, p, q1 - 1), start |-> SubSeq(s, q2, q3 - 1),
              end |-> SubSeq(s, q5, q6 - 1), next |-> q7 + 1]
        ELSE [ok |-> FALSE, func |-> <<>>, start |-> <<>>, end |-> <<>>, next |-> p + 1]

\* re.findall(pattern, s, re.I): the non-overlapping matches from p on
RECURSIVE findall(_, _)
findall(s, p) ==
    IF p > Len(s) THEN <<>>
    ELSE LET m == match_at(s, p)
         IN  IF m.ok THEN <<m>> \o findall(s, m.next) ELSE findall(s, p + 1)

---------------------------------------------------------------------------
(* parse_multi_sheet_txt                                                   *)

SHEET_KEY == <<"S","H","E","E","T",":">>
STATION_KEY == <<"S","T","A","T","I","O","N",":">>
LOCATION_KEY == <<"L","O","C","A","T","I","O","N",":">>
SIP_KEY == <<"S","I","P",":">>
HEADING_KEY == <<"H","E","A","D","I","N","G",":">>
DEFAULT_HEADING == <<"T","E","R","M","I","N","A","L"," ","C","H","A","R","T">>

term_keywords == <<
    <<"S","P","A","R","E">>, <<"R","E","S","E","R","V","E","D">>, <<"N","I">>,
    <<"E","3">>, <<"T","E","R","M","I","N","A","L">>, <<"B","L","O","C","K">>,
    <<"L","I","N","K">>, <<"R","E","S","E","R","V","E">>, <<"S","P">> >>

initial_meta ==
    [sheet |-> 1, station |-> <<>>, location |-> <<>>, sip |-> <<>>,
     heading |-> DEFAULT_HEADING]

\* the reference stored by current_meta.copy(): the new dict, heap cell Len(h)+1
dict_copy_alias(h, ref) == ref
dict_copy(h, ref) == Len(h) + 1

\* cable_detail of a row line from its stripped parts
cable_detail(parts) ==
    LET last_part == upper(parts[Len(parts)])
        is_cable == ~ \E k \in 1..Len(term_keywords) : contains(last_part, term_keywords[k])
    IN  IF is_cable /\ Len(parts) >= 3 THEN last_part ELSE <<>>

\* the records of one match: for i in range(start, end + 1)
range_records(rid, cable, m) ==
    LET start == int(m.start)
        end == int(m.end)
    IN  IF end < start THEN <<>>
        ELSE [k \in 1..(end - start + 1) |->
                [RowID |-> rid, Function |-> upper(strip(m.func)),
                 CableDetail |-> cable, TerminalNumber |-> zfill2(str(start + k - 1))]]

RECURSIVE match_records(_, _, _)
match_records(rid, cable, matches) ==
    IF matches = <<>> THEN <<>>
    ELSE range_records(rid, cable, Head(matches)) \o match_records(rid, cable, Tail(matches))

\* the matches of the range pattern in a row line (stripped, not metadata)
row_matches(line) ==
    LET parts == [k \in 1..Len(split(line, ",")) |-> strip(split(line, ",")[k])]
    IN  IF Len(parts) >= 2 THEN findall(join(Tail(parts)), 1) ELSE <<>>

\* the records a row line (stripped, not metadata) appends to current_rows
row_records(line) ==
    LET parts == [k \in 1..Len(split(line, ",")) |-> strip(split(line, ",")[k])]
    IN  IF Len(parts) >= 2
        THEN match_records(upper(parts[1]), cable_detail(parts), row_matches(line))
        ELSE <<>>

\* the row branch reaches int() with a string that is no decimal number
row_raises(line) ==
    \E k \in 1..Len(row_matches(line)) :
        int(row_matches(line)[k].start) < 0 \/ int(row_matches(line)[k].end) < 0

\* the sheet number after a SHEET: line
sheet_number(line, old) ==
    IF first_digits(line) = <<>> THEN old ELSE int(first_digits(line))

\* rows left behind after a sheet is appended: current_rows = []
rows_after_append_kept(rows) == rows
rows_after_append(rows) == <<>>

\* one iteration of the loop over raw_text.splitlines()
ReadLine(raw) ==
    LET line == strip(raw)
        upper_line == upper(line)
        cm == current_meta
    IN
    /\ pc = "parse"
    /\ raw_lines' = Append(raw_lines, raw)
    /\ current_meta' = current_meta
    /\ UNCHANGED <<group_vars, pdf_vars>>
    /\ IF line = <<>> THEN
            /\ UNCHANGED <<pc, error, heap, current_rows, sheets_data, cuts>>
            /\ emitted' = Append(emitted, <<>>)
       ELSE IF startswith(upper_line, SHEET_KEY) THEN
            /\ IF current_rows # <<>>
               THEN /\ sheets_data' = Append(sheets_data,
                            [meta |-> dict_copy(heap, cm), rows |-> current_rows])
                    /\ current_rows' = rows_after_append(current_rows)
                    /\ cuts' = Append(cuts, Len(raw_lines) + 1)
                    /\ heap' = Append(
                            [heap EXCEPT ![cm].sheet = sheet_number(line, heap[cm].sheet)],
                            heap[cm])
               ELSE /\ UNCHANGED <<sheets_data, current_rows, cuts>>
                    /\ heap' = [heap EXCEPT ![cm].sheet = sheet_number(line, heap[cm].sheet)]
            /\ emitted' = Append(emitted, <<>>)
            /\ UNCHANGED <<pc, error>>
       ELSE IF startswith(upper_line, STATION_KEY) THEN
            /\ heap' = [heap EXCEPT ![cm].station = meta_value(line)]
            /\ emitted' = Append(emitted, <<>>)
            /\ UNCHANGED <<pc, error, current_rows, sheets_data, cuts>>
       ELSE IF startswith(upper_line, LOCATION_KEY) THEN
            /\ heap' = [heap EXCEPT ![cm].location = meta_value(line)]
            /\ emitted' = Append(emitted, <<>>)
            /\ UNCHANGED <<pc, error, current_rows, sheets_data, cuts>>
       ELSE IF startswith(upper_line, SIP_KEY) THEN
            /\ heap' = [heap EXCEPT ![cm].sip = meta_value(line)]
            /\ emitted' = Append(emitted, <<>>)
            /\ UNCHANGED <<pc, error, current_rows, sheets_data, cuts>>
       ELSE IF startswith(upper_line, HEADING_KEY) THEN
            /\ heap' = [heap EXCEPT ![cm].heading = meta_value(line)]
            /\ emitted' = Append(emitted, <<>>)
            /\ UNCHANGED <<pc, error, current_rows, sheets_data, cuts>>
       ELSE IF row_raises(line) THEN
            /\ pc' = "error"
            /\ error' = "ValueError"
            /\ emitted' = Append(emitted, <<>>)
            /\ UNCHANGED <<heap, current_rows, sheets_data, cuts>>
       ELSE
            /\ current_rows' = current_rows \o row_records(line)
            /\ emitted' = Append(emitted, row_records(line))
            /\ UNCHANGED <<pc, error, heap, sheets_data, cuts>>

\* after the loop: the last sheet, then return sheets_data
EndOfInput ==
    /\ pc = "parse"
    /\ pc' = "parsed"
    /\ IF current_rows # <<>>
       THEN /\ sheets_data' = Append(sheets_data,
                    [meta |-> current_meta, rows |-> current_rows])
            /\ cuts' = Append(cuts, Len(raw_lines) + 1)
       ELSE UNCHANGED <<sheets_data, cuts>>
    /\ UNCHANGED <<error, raw_lines, heap, current_meta, current_rows, emitted,
                   group_vars, pdf_vars>>

\* the state of parse_multi_sheet_txt as it enters its loop
ParseStart ==
    /\ raw_lines = <<>>
    /\ heap = <<initial_meta>>
    /\ current_meta = 1
    /\ current_rows = <<>>
    /\ sheets_data = <<>>
    /\ emitted = <<>>
    /\ cuts = <<>>

\* the blank canvas and the locals of process_multi_sheet_pdf before its loop
BlankPage == [templates |-> <<>>, rows |-> <<>>]
PdfStart ==
    /\ si = 1
    /\ groups = <<>>
    /\ terms = <<>>
    /\ chunks = <<>>
    /\ ci = 0
    /\ y_curr = 0
    /\ rows_on_page = 0
    /\ current_sheet_no = 0
    /\ pages = <<>>
    /\ page = BlankPage
    /\ first_page = <<>>

\* no chunk drawn yet
BracketStart ==
    /\ chunk = <<>>
    /\ brackets = <<>>

ParseInit ==
    /\ pc = "parse"
    /\ error = "none"
    /\ ParseStart
    /\ PdfStart
    /\ BracketStart
    /\ sheets_list = <<>>

---------------------------------------------------------------------------
(* Input texts of the sheet aggregator                                     *)

MaxLines == 4

SheetLines == {
    <<"S","h","e","e","t",":","0","7","-","3">>,
    <<"s","h","e","e","t",":">>,
    <<"S","T","A","T","I","O","N",":"," ","K","U","R">>,
    <<" ","s","t","a","t","i","o","n",":","k"," ">>,
    <<"L","O","C","A","T","I","O","N",":"," ","G","1">>,
    <<"S","I","P",":"," ","S",":","1">>,
    <<"H","E","A","D","I","N","G",":"," ","H">>,
    <<"A",","," ","X","[","1"," ","t","o"," ","2","]">>,
    <<"b",","," ","Y","[","3"," ","t","o"," ","3","]",","," ","6","c">> }

Next ==
    \/ \E raw \in SheetLines : Len(raw_lines) < MaxLines /\ ReadLine(raw)
    \/ EndOfInput

Spec == ParseInit /\ [][Next]_vars

---------------------------------------------------------------------------
(* Reference definitions for the properties                                *)

\* the line (as read) begins with the keyword, ignoring case and margins
IsKeyLine(raw, key) ==
    LET l == strip(raw)
    IN  Len(l) >= Len(key) /\ \A i \in 1..Len(key) : upper_char(l[i]) = key[i]

\* the value after the first colon of the last of lines[1..n] that begins
\* with key, and dflt when none does
LastDeclared(lines, n, key, dflt) ==
    LET at == {k \in 1..n : IsKeyLine(lines[k], key)}
    IN  IF at = {} THEN dflt ELSE meta_value(strip(lines[Max(at)]))

\* the records emitted by lines a..b, in line order
RECURSIVE EmittedBy(_, _)
EmittedBy(a, b) ==
    IF a > b THEN <<>> ELSE emitted[a] \o EmittedBy(a + 1, b)

\* some line of a..b emitted a record
HasRecords(a, b) == \E k \in a..b : emitted[k] # <<>>

\* the first line of the block of sheet j: line 1, or the SHEET: line that
\* finalized sheet j-1
BlockStart(j) == IF j = 1 THEN 1 ELSE cuts[j - 1]

\* the first line of the block that line k (or the end of input) closes
OpenBlockStart(k) == Max({1} \cup {cuts[i] : i \in {i \in 1..Len(cuts) : cuts[i] < k}})

CutSet == {cuts[i] : i \in 1..Len(cuts)}

RECURSIVE AllRows(_)
AllRows(j) == IF j = 0 THEN <<>> ELSE AllRows(j - 1) \o sheets_data[j].rows

Meta(j) == heap[sheets_data[j].meta]

---------------------------------------------------------------------------
(* C1: sheet isolation.  The metadata record stored for a sheet holds, for *)
(* station, location, sip and heading, the value declared last up to the   *)
(* line that finalized the sheet (the default when none was), whatever     *)
(* lines are read afterwards; and a field of the next sheet is the value   *)
(* redeclared in that sheet's own block or else the value carried forward  *)
(* from the sheet before it.                                               *)
C1_SheetIsolation ==
    \A j \in 1..Len(sheets_data) :
        LET n == cuts[j] - 1
            own(key) == {k \in BlockStart(j)..n : IsKeyLine(raw_lines[k], key)}
        IN  /\ Meta(j).station = LastDeclared(raw_lines, n, STATION_KEY, <<>>)
            /\ Meta(j).location = LastDeclared(raw_lines, n, LOCATION_KEY, <<>>)
            /\ Meta(j).sip = LastDeclared(raw_lines, n, SIP_KEY, <<>>)
            /\ Meta(j).heading = LastDeclared(raw_lines, n, HEADING_KEY, DEFAULT_HEADING)
            /\ j > 1 =>
                /\ own(STATION_KEY) = {} => Meta(j).station = Meta(j - 1).station
                /\ own(LOCATION_KEY) = {} => Meta(j).location = Meta(j - 1).location
                /\ own(SIP_KEY) = {} => Meta(j).sip = Meta(j - 1).sip
                /\ own(HEADING_KEY) = {} => Meta(j).heading = Meta(j - 1).heading

\* two sheets, a station declared after the boundary: sheet 2 has it,
\* sheet 1 does not
C1_Witness ==
    /\ Len(sheets_data) = 2
    /\ Meta(1).station = <<>>
    /\ Meta(2).station = <<"K","U","R">>
    /\ \E k \in cuts[1]..Len(raw_lines) : IsKeyLine(raw_lines[k], STATION_KEY)

(* C2: sheet aggregation.  A SHEET: line finalizes a sheet exactly when    *)
(* records have accumulated since the last finalization, and so does the   *)
(* end of input; the sheets are in file order, each holds exactly the      *)
(* records its own block of lines emitted, in line order, and together     *)
(* with the records still accumulating they are all the records emitted.   *)
C2_SheetAggregation ==
    /\ Len(cuts) = Len(sheets_data)
    /\ \A j \in 1..Len(sheets_data) :
        /\ BlockStart(j) < cuts[j]
        /\ sheets_data[j].rows # <<>>
        /\ sheets_data[j].rows = EmittedBy(BlockStart(j), cuts[j] - 1)
    /\ \A k \in 1..Len(raw_lines) :
        k \in CutSet <=>
            /\ IsKeyLine(raw_lines[k], SHEET_KEY)
            /\ HasRecords(OpenBlockStart(k), k - 1)
    /\ pc = "parse" =>
        /\ Len(raw_lines) + 1 \notin CutSet
        /\ current_rows = EmittedBy(OpenBlockStart(Len(raw_lines) + 1), Len(raw_lines))
    /\ pc = "parsed" =>
        /\ Len(raw_lines) + 1 \in CutSet <=>
                HasRecords(OpenBlockStart(Len(raw_lines) + 1), Len(raw_lines))
        /\ AllRows(Len(sheets_data)) = EmittedBy(1, Len(raw_lines))

\* a SHEET: line closed one sheet, the end of input another, and a SHEET:
\* line read with nothing accumulated closed none
C2_Witness ==
    /\ pc = "parsed"
    /\ Len(sheets_data) = 2
    /\ \E k \in 1..Len(raw_lines) : IsKeyLine(raw_lines[k], SHEET_KEY) /\ k \notin CutSet

(* C3: sheet number resolution.  The number of a sheet is the first run of *)
(* digits of the SHEET: line it starts at, 1 when that line has no digits, *)
(* and 1 when no SHEET: line precedes the sheet.                           *)
C3_SheetNumber ==
    \A j \in 1..Len(sheets_data) :
        LET at == {k \in BlockStart(j)..(cuts[j] - 1) : IsKeyLine(raw_lines[k], SHEET_KEY)}
            line == strip(raw_lines[Max(at)])
        IN  Meta(j).sheet =
                IF at = {} THEN 1
                ELSE IF first_digits(line) = <<>> THEN 1
                ELSE int(first_digits(line))

---------------------------------------------------------------------------
(* Input texts of the row parser                                           *)

MaxRowLines == 2

\* ROWID and LABEL as typed, and as the records must show them
RowForms == {
    [rid |-> <<"A">>, label |-> <<"X">>, RowID |-> <<"A">>, Function |-> <<"X">>],
    [rid |-> <<"b">>, label |-> <<" ","h","r"," ">>, RowID |-> <<"B">>, Function |-> <<"H","R">>] }

\* range bounds as typed, and their values
RowRanges == {
    [s |-> <<"3">>, e |-> <<"5">>, lo |-> 3, hi |-> 5],
    [s |-> <<"0">>, e |-> <<"0">>, lo |-> 0, hi |-> 0],
    [s |-> <<"0","9">>, e |-> <<"1","0">>, lo |-> 9, hi |-> 10],
    [s |-> <<"9","9">>, e |-> <<"1","0","0">>, lo |-> 99, hi |-> 100] }

\* the row line `ROWID, LABEL[s to e]`
RowLine(f, r) ==
    f.rid \o <<",", " ">> \o f.label \o <<"[">> \o r.s \o <<" ", "t", "o", " ">> \o r.e \o <<"]">>

WellFormedLines == {RowLine(f, r) : f \in RowForms, r \in RowRanges}

\* `A, X[1 to 2] , y[2 TO 3]`: terminal 02 twice in one row
RepeatLine == <<"A",","," ","X","[","1"," ","t","o"," ","2","]"," ",","," ","y","[","2"," ","T","O"," ","3","]">>

\* a non-numeric bound, end < start, an unmatched bracket, no blank before `to`
MalformedLines == {
    <<"A",","," ","X","[","a"," ","t","o"," ","3","]">>,
    <<"A",","," ","X","[","5"," ","t","o"," ","3","]">>,
    <<"A",","," ","X","[","1"," ","t","o"," ","3">>,
    <<"A",","," ","X","[","1","t","o"," ","3","]">> }

\* `A, X[5 to 3], Y[7 to 7], Z[1 to 2`: one well-formed range between two malformed
MixedLine == <<"A",","," ","X","[","5"," ","t","o"," ","3","]",","," ","Y","[","7"," ","t","o"," ","7","]",","," ","Z","[","1"," ","t","o"," ","2">>

OtherLines == {
    <<"S","T","A","T","I","O","N",":"," ","K","U","R">>,
    <<"s","i","p",":","s","1">>,
    <<"S","H","E","E","T",":"," ","2">>,
    <<"N","O"," ","C","O","M","M","A","[","1"," ","t","o"," ","2","]">>,
    <<" ">> }

RowLines == WellFormedLines \cup {RepeatLine, MixedLine} \cup MalformedLines \cup OtherLines

NextRows ==
    \/ \E raw \in RowLines : Len(raw_lines) < MaxRowLines /\ ReadLine(raw)
    \/ EndOfInput

SpecRows == ParseInit /\ [][NextRows]_vars

\* i zero-padded to two digits, i < 1000
Padded(i) ==
    IF i < 100 THEN <<DIGITS[(i \div 10) + 1], DIGITS[(i % 10) + 1]>>
    ELSE <<DIGITS[(i \div 100) + 1], DIGITS[((i \div 10) % 10) + 1], DIGITS[(i % 10) + 1]>>

(* C4: range expansion.  A row line `ROWID, LABEL[s to e]` with s <= e     *)
(* emits exactly e-s+1 records, one per i in s..e in ascending order, with *)
(* Terminal Number i zero-padded to 2 digits, Function the trimmed         *)
(* upper-cased LABEL and Row ID the upper-cased ROWID; `X[3 to 5]` gives   *)
(* 03, 04, 05; a terminal number repeated by two ranges is emitted twice.  *)
C4_RangeExpansion ==
    \A k \in 1..Len(raw_lines) :
        /\ \A f \in RowForms, r \in RowRanges :
            raw_lines[k] = RowLine(f, r) =>
                /\ Len(emitted[k]) = r.hi - r.lo + 1
                /\ \A n \in 1..Len(emitted[k]) :
                    /\ emitted[k][n].TerminalNumber = Padded(r.lo + n - 1)
                    /\ emitted[k][n].Function = f.Function
                    /\ emitted[k][n].RowID = f.RowID
        /\ raw_lines[k] = <<"A",","," ","X","[","3"," ","t","o"," ","5","]">> =>
                [n \in 1..Len(emitted[k]) |-> emitted[k][n].TerminalNumber]
                    = <<<<"0","3">>, <<"0","4">>, <<"0","5">>>>
        /\ raw_lines[k] = RepeatLine =>
                [n \in 1..Len(emitted[k]) |->
                    <<emitted[k][n].Function, emitted[k][n].TerminalNumber>>]
                    = << <<<<"X">>, <<"0","1">>>>, <<<<"X">>, <<"0","2">>>>,
                         <<<<"Y">>, <<"0","2">>>>, <<<<"Y">>, <<"0","3">>>> >>

\* `A, X[3 to 5]` and the repeating line have both been read, and their
\* records returned
C4_Witness ==
    /\ pc = "parsed"
    /\ raw_lines = <<<<"A",","," ","X","[","3"," ","t","o"," ","5","]">>, RepeatLine>>
    /\ Len(sheets_data) = 1
    /\ Len(sheets_data[1].rows) = 7

\* reading a line whose ranges are all malformed changes nothing but the
\* count of lines read; the mixed line appends only its well-formed range
C5_MalformedStep ==
    LET n == Len(raw_lines')
    IN  raw_lines' # raw_lines =>
            /\ raw_lines'[n] \in MalformedLines =>
                    /\ emitted'[n] = <<>>
                    /\ UNCHANGED <<pc, error, heap, current_meta, current_rows, sheets_data>>
            /\ raw_lines'[n] = MixedLine =>
                    /\ Len(emitted'[n]) = 1
                    /\ emitted'[n][1].Function = <<"Y">>
                    /\ emitted'[n][1].TerminalNumber = <<"0","7">>
                    /\ current_rows' = current_rows \o emitted'[n]
                    /\ UNCHANGED <<pc, error, heap, current_meta, sheets_data>>

\* no read raises; the records of a line are those of that line alone; the
\* current metadata are the declarations read; the returned sheets hold
\* every record emitted
C5_NoError ==
    /\ error = "none"
    /\ pc \in {"parse", "parsed"}
    /\ \A k \in 1..Len(raw_lines) :
        LET line == strip(raw_lines[k])
        IN  emitted[k] =
                IF line = <<>> \/ \E key \in {SHEET_KEY, STATION_KEY, LOCATION_KEY, SIP_KEY, HEADING_KEY} :
                        IsKeyLine(raw_lines[k], key)
                THEN <<>> ELSE row_records(line)
    /\ heap[current_meta].station = LastDeclared(raw_lines, Len(raw_lines), STATION_KEY, <<>>)
    /\ heap[current_meta].sip = LastDeclared(raw_lines, Len(raw_lines), SIP_KEY, <<>>)
    /\ pc = "parsed" => AllRows(Len(sheets_data)) = EmittedBy(1, Len(raw_lines))

(* C5: permissive parsing.  A row line with a malformed range contributes  *)
(* no records for that range and raises no error, it changes neither the   *)
(* records of the other lines nor the current metadata, and every input    *)
(* text is parsed to a result.                                             *)
C5_Permissive == []C5_NoError /\ [][C5_MalformedStep]_vars

\* a declaration, a malformed line, and the parse returned without records
C5_Witness ==
    /\ pc = "parsed"
    /\ Len(raw_lines) = 2
    /\ raw_lines[1] = <<"S","T","A","T","I","O","N",":"," ","K","U","R">>
    /\ raw_lines[2] \in MalformedLines
    /\ sheets_data = <<>>
    /\ heap[current_meta].station = <<"K","U","R">>

---------------------------------------------------------------------------
(* process_multi_sheet_pdf: the bracket groups of a chunk                  *)

\* chunk[i][key]
field(t, key) == IF key = "Function" THEN t.Function ELSE t.CableDetail

\* str(chunk[i][key]).upper().strip()
norm_label_raw(x) == x
norm_label(x) == strip(upper(x))

\* the inner while: the first index from i on whose label is not txt
RECURSIVE run_end(_, _, _, _)
run_end(c, key, txt, i) ==
    IF i < Len(c) /\ norm_label(field(c[i + 1], key)) = txt
    THEN run_end(c, key, txt, i + 1)
    ELSE i

\* the outer while from index i on (indices from 0, as in the program): the
\* brackets drawn for one selector, left to right
RECURSIVE group_scan(_, _, _)
group_scan(c, key, i) ==
    IF i >= Len(c) THEN <<>>
    ELSE LET txt == norm_label(field(c[i + 1], key))
         IN  IF txt = <<>> THEN group_scan(c, key, i + 1)
             ELSE <<[start_i |-> i, end_i |-> run_end(c, key, txt, i) - 1, txt |-> txt]>>
                    \o group_scan(c, key, run_end(c, key, txt, i))

\* the brackets of the loop over ('Function', ...) and ('Cable Detail', ...)
chunk_brackets(c) ==
    [Function |-> group_scan(c, "Function", 0),
     CableDetail |-> group_scan(c, "Cable Detail", 0)]

\* the bracket pass of one chunk, on its own
DrawBrackets ==
    /\ pc = "brackets"
    /\ brackets' = chunk_brackets(chunk)
    /\ pc' = "drawn"
    /\ UNCHANGED <<error, chunk, parse_vars, sheets_list, si, groups, terms, chunks, ci,
                   y_curr, rows_on_page, current_sheet_no, pages, page, first_page>>

---------------------------------------------------------------------------
(* process_multi_sheet_pdf: layout                                         *)

\* lengths: units per point; reportlab's A3 is 297 mm x 420 mm at 72/25.4
\* points per mm, so landscape(A3) is (420*720, 297*720) in 1/254 pt
PT == 254
PAGE_WIDTH == 420 * 720
PAGE_HEIGHT == 297 * 720
PAGE_MARGIN == 20 * PT
SAFETY_OFFSET == 85 * (PT \div 2)
FIXED_GAP == 33 * PT
ROW_HEIGHT_SPACING == 105 * PT

\* 15 * info_x, info_x = PAGE_MARGIN + ((width - (2 * PAGE_MARGIN)) / 15)
info_x_15 == 15 * PAGE_MARGIN + (PAGE_WIDTH - 2 * PAGE_MARGIN)

\* int((width - info_x - SAFETY_OFFSET - 40) // FIXED_GAP)
term_per_row ==
    (15 * (PAGE_WIDTH - SAFETY_OFFSET - 40 * PT) - info_x_15) \div (15 * FIXED_GAP)

\* height - 160
top_line == PAGE_HEIGHT - 160 * PT

\* rows_on_page >= 6
page_full_late(n) == n > 6
page_full(n) == n >= 6

\* the cursor after a row: y_curr -= ROW_HEIGHT_SPACING
next_row_y_tight(y) == y - 100 * PT
next_row_y(y) == y - ROW_HEIGHT_SPACING

\* code point order of the characters that occur in row ids
CHAR_ORDER == <<" ","0","1","2","3","4","5","6","7","8","9","A","B","C","D","E","F","G","H","I","J","K","L","M","N","O","P","Q","R","S","T","U","V","W","X","Y","Z","a","b","c","d","e","f","g","h","i","j","k","l","m","n","o","p","q","r","s","t","u","v","w","x","y","z">>
OrdOf == [c \in {CHAR_ORDER[i] : i \in 1..Len(CHAR_ORDER)} |->
            CHOOSE i \in 1..Len(CHAR_ORDER) : CHAR_ORDER[i] = c]

\* a < b for str
str_less(a, b) ==
    LET n == IF Len(a) < Len(b) THEN Len(a) ELSE Len(b)
        d == {i \in 1..n : a[i] # b[i]}
    IN  IF d = {} THEN Len(a) < Len(b) ELSE OrdOf[a[Min(d)]] < OrdOf[b[Min(d)]]

\* df['sort_key']: the first run of digits of the terminal number, else 0
sort_key(t) ==
    IF first_digits(t.TerminalNumber) = <<>> THEN 0 ELSE int(first_digits(t.TerminalNumber))

\* df.sort_values(by=['Row ID', 'sort_key']): pandas sorts several keys with
\* a stable lexsort, so equal keys keep their order.  Row i goes to the place
\* after the rows that come before it.
sort_values(rows) ==
    LET n == Len(rows)
        key == SubSeq([i \in 1..n |-> sort_key(rows[i])], 1, n)
        less(j, i) ==
            \/ str_less(rows[j].RowID, rows[i].RowID)
            \/ rows[j].RowID = rows[i].RowID /\ key[j] < key[i]
        place == SubSeq([i \in 1..n |->
                    Cardinality({j \in 1..n : less(j, i) \/ (~less(i, j) /\ j < i)}) + 1], 1, n)
    IN  SubSeq([k \in 1..n |-> rows[CHOOSE i \in 1..n : place[i] = k]], 1, n)

\* df.groupby('Row ID', sort=False): the groups in order of first appearance
RECURSIVE groupby(_)
groupby(df) ==
    IF df = <<>> THEN <<>>
    ELSE LET same(t) == t.RowID = df[1].RowID
             other(t) == t.RowID # df[1].RowID
         IN  <<[rid |-> df[1].RowID, terms |-> SelectSeq(df, same)]>>
                \o groupby(SelectSeq(df, other))

\* terms[i:i + n], i counted from 0
slice_short(ts, i, n) == SubSeq(ts, i + 1, IF i + n - 1 < Len(ts) THEN i + n - 1 ELSE Len(ts))
slice(ts, i, n) == SubSeq(ts, i + 1, IF i + n < Len(ts) THEN i + n ELSE Len(ts))

\* [terms[i:i + n] for i in range(i0, len(terms), n)]
RECURSIVE chunk_list(_, _, _)
chunk_list(ts, i, n) ==
    IF i >= Len(ts) THEN <<>>
    ELSE <<slice(ts, i, n)>> \o chunk_list(ts, i + n, n)

\* what draw_page_template puts on the page
template(sheet_num, meta) ==
    [sheet_num |-> sheet_num, heading |-> upper(meta.heading),
     location |-> upper(meta.location), station |-> upper(meta.station),
     sip |-> upper(meta.sip)]

\* c.showPage()
showPage(ps, p) == Append(ps, p)

\* the head of the loop over sheets_list: the frame, its sort, the first template
StartSheet ==
    /\ pc = "sheet"
    /\ si <= Len(sheets_list)
    /\ LET sheet == sheets_list[si]
       IN  IF sheet.rows = <<>>
           THEN \* pd.DataFrame([]) has no column 'Terminal Number'
                /\ pc' = "error"
                /\ error' = "KeyError"
                /\ UNCHANGED <<groups, y_curr, rows_on_page, current_sheet_no, page, first_page>>
           ELSE /\ pc' = "group"
                /\ error' = error
                /\ groups' = groupby(sort_values(sheet.rows))
                /\ y_curr' = top_line
                /\ rows_on_page' = 0
                /\ current_sheet_no' = sheet.meta.sheet
                /\ page' = [page EXCEPT !.templates =
                                Append(@, template(sheet.meta.sheet, sheet.meta))]
                /\ first_page' = Append(first_page, Len(pages) + 1)
    /\ UNCHANGED <<parse_vars, group_vars, sheets_list, si, terms, chunks, ci, pages>>

\* the head of the loop over the groups: the chunks of the next row id
NextGroup ==
    /\ pc = "group"
    /\ groups # <<>>
    /\ terms' = Head(groups).terms
    /\ chunks' = chunk_list(Head(groups).terms, 0, term_per_row)
    /\ ci' = 0
    /\ groups' = Tail(groups)
    /\ pc' = "chunk"
    /\ UNCHANGED <<error, parse_vars, group_vars, sheets_list, si, y_curr, rows_on_page,
                   current_sheet_no, pages, page, first_page>>

\* if rows_on_page >= 6: a new page
PageBreak ==
    /\ pc = "chunk"
    /\ page_full(rows_on_page)
    /\ pages' = showPage(pages, page)
    /\ current_sheet_no' = current_sheet_no + 1
    /\ page' = [templates |-> <<template(current_sheet_no + 1, sheets_list[si].meta)>>,
                rows |-> <<>>]
    /\ y_curr' = top_line
    /\ rows_on_page' = 0
    /\ UNCHANGED <<pc, error, parse_vars, group_vars, sheets_list, si, groups, terms,
                   chunks, ci, first_page>>

\* the rest of the loop body: the terminals of the chunk and their brackets
DrawChunk ==
    /\ pc = "chunk"
    /\ ~page_full(rows_on_page)
    /\ LET c == chunks[ci + 1]
       IN  /\ chunk' = c
           /\ brackets' = chunk_brackets(c)
           /\ page' = [page EXCEPT !.rows = Append(@,
                        [rid |-> terms[1].RowID, y |-> y_curr,
                         numbers |-> [k \in 1..Len(c) |-> zfill2(c[k].TerminalNumber)],
                         brackets |-> chunk_brackets(c)])]
    /\ y_curr' = next_row_y(y_curr)
    /\ rows_on_page' = rows_on_page + 1
    /\ ci' = ci + 1
    /\ pc' = IF ci + 1 = Len(chunks) THEN "group" ELSE "chunk"
    /\ UNCHANGED <<error, parse_vars, sheets_list, si, groups, terms, chunks,
                   current_sheet_no, pages, first_page>>

\* after the groups of a sheet: c.showPage()
EndSheet ==
    /\ pc = "group"
    /\ groups = <<>>
    /\ pages' = showPage(pages, page)
    /\ page' = BlankPage
    /\ si' = si + 1
    /\ pc' = "sheet"
    /\ UNCHANGED <<error, parse_vars, group_vars, sheets_list, groups, terms, chunks, ci,
                   y_curr, rows_on_page, current_sheet_no, first_page>>

\* c.save(): reportlab ends the current page only if something is drawn on it
Save ==
    /\ pc = "sheet"
    /\ si > Len(sheets_list)
    /\ pages' = IF page = BlankPage THEN pages ELSE showPage(pages, page)
    /\ page' = BlankPage
    /\ pc' = "done"
    /\ UNCHANGED <<error, parse_vars, group_vars, sheets_list, si, groups, terms, chunks, ci,
                   y_curr, rows_on_page, current_sheet_no, first_page>>

---------------------------------------------------------------------------
(* Input chunks of the bracket pass                                        *)

MaxChunkLen == 4

\* the labels of the inputs, as typed and as upper-cased and trimmed
LabelNorm == {
    <<<<"H","R">>, <<"H","R">>>>, <<<<" ","h","r">>, <<"H","R">>>>, <<<<"S","P">>, <<"S","P">>>>,
    <<<<"6","c"," ">>, <<"6","C">>>>, <<<<"6","C">>, <<"6","C">>>>, <<<<" ">>, <<>>>>, <<<<>>, <<>>>> }
NormOf(x) == (CHOOSE e \in LabelNorm : e[1] = x)[2]

ChunkTerminals == {
    [RowID |-> <<"A">>, Function |-> fc[1], CableDetail |-> fc[2], TerminalNumber |-> <<"0","1">>] :
        fc \in { <<<<"H","R">>, <<"H","R">>>>, <<<<" ","h","r">>, <<"6","c"," ">>>>, <<<<"S","P">>, <<"S","P">>>>,
                  <<<<>>, <<"6","C">>>>, <<<<" ">>, <<>>>> } }

ChunkInputs == UNION {[1..n -> ChunkTerminals] : n \in 1..MaxChunkLen}

GroupInit ==
    /\ pc = "brackets"
    /\ error = "none"
    /\ ParseStart
    /\ PdfStart
    /\ sheets_list = <<>>
    /\ chunk \in ChunkInputs
    /\ brackets = <<>>

SpecGroup == GroupInit /\ [][DrawBrackets]_vars

\* the brackets of one selector are the maximal runs of equal non-empty labels
IsRunLength(B, lab, n) ==
    /\ \A k \in 1..Len(B) :
        /\ 0 <= B[k].start_i /\ B[k].start_i <= B[k].end_i /\ B[k].end_i < n
        /\ B[k].txt # <<>>
        /\ \A i \in B[k].start_i..B[k].end_i : lab[i + 1] = B[k].txt
        /\ B[k].start_i = 0 \/ lab[B[k].start_i] # B[k].txt
        /\ B[k].end_i = n - 1 \/ lab[B[k].end_i + 2] # B[k].txt
        /\ k < Len(B) => B[k].end_i < B[k + 1].start_i
    /\ \A i \in 0..(n - 1) :
        Cardinality({k \in 1..Len(B) : B[k].start_i <= i /\ i <= B[k].end_i})
            = IF lab[i + 1] = <<>> THEN 0 ELSE 1

(* C6: run-length grouping.  For either selector the brackets drawn are,   *)
(* left to right, the runs of consecutive entries with equal non-empty     *)
(* upper-cased trimmed label: every entry with a label lies in exactly one *)
(* bracket, entries without lie in none, brackets do not overlap, and      *)
(* [HR, HR, SP] gives HR over 0-1 and SP over 2.                           *)
C6_RunLengthGrouping ==
    pc = "drawn" =>
        LET n == Len(chunk)
            f == [i \in 1..n |-> NormOf(chunk[i].Function)]
            c == [i \in 1..n |-> NormOf(chunk[i].CableDetail)]
        IN  /\ IsRunLength(brackets.Function, f, n)
            /\ IsRunLength(brackets.CableDetail, c, n)
            /\ f = <<<<"H","R">>, <<"H","R">>, <<"S","P">>>> =>
                    brackets.Function =
                        <<[start_i |-> 0, end_i |-> 1, txt |-> <<"H","R">>],
                          [start_i |-> 2, end_i |-> 2, txt |-> <<"S","P">>]>>
            /\ c = <<<<"H","R">>, <<"H","R">>, <<"S","P">>>> =>
                    brackets.CableDetail =
                        <<[start_i |-> 0, end_i |-> 1, txt |-> <<"H","R">>],
                          [start_i |-> 2, end_i |-> 2, txt |-> <<"S","P">>]>>

\* HR, an entry without label, hr, SP: three function brackets, the blank
\* entry in none
C6_Witness ==
    /\ pc = "drawn"
    /\ [i \in 1..Len(chunk) |-> chunk[i].Function] = <<<<"H","R">>, <<" ">>, <<" ","h","r">>, <<"S","P">>>>
    /\ Len(brackets.Function) = 3
    /\ brackets.Function[2] = [start_i |-> 2, end_i |-> 2, txt |-> <<"H","R">>]

---------------------------------------------------------------------------
(* Input sheets of the layout                                              *)

MaxSheets == 2

terminal(rid, func, cable, num) ==
    [RowID |-> rid, Function |-> func, CableDetail |-> cable, TerminalNumber |-> num]

\* the records of `rid, func[lo to hi]`
terminals(rid, func, cable, lo, hi) ==
    [k \in 1..(hi - lo + 1) |-> terminal(rid, func, cable, zfill2(str(lo + k - 1)))]

\* n rows of one terminal each, last row id first
singles(n) ==
    [k \in 1..n |-> terminal(<<UPPER[n + 1 - k]>>, <<"X">>, <<>>, <<"0","1">>)]

meta_of(sheet, location) ==
    [sheet |-> sheet, station |-> <<"K","u","r">>, location |-> location, sip |-> <<>>,
     heading |-> DEFAULT_HEADING]

SheetInputs == {
    \* every row deleted in the table editor
    [meta |-> meta_of(4, <<"E">>), rows |-> <<>>],
    \* edited by hand: out of order, one number not padded
    [meta |-> meta_of(1, <<"G","1">>),
     rows |-> <<terminal(<<"A">>, <<"S","P">>, <<>>, <<"1","0">>),
               terminal(<<"A">>, <<"H","R">>, <<"6","C">>, <<"0","1">>),
               terminal(<<"A">>, <<"h","r">>, <<"6","C">>, <<"2">>)>>],
    \* a row of term_per_row + 1 before a row of term_per_row
    [meta |-> meta_of(2, <<"G","2">>),
     rows |-> terminals(<<"B">>, <<"X">>, <<>>, 1, term_per_row + 1)
                \o terminals(<<"A">>, <<"Y">>, <<"6","C">>, 1, term_per_row)],
    \* 6 chunk rows, 7 chunk rows
    [meta |-> meta_of(1, <<"G","3">>), rows |-> singles(6)],
    [meta |-> meta_of(3, <<"G","4">>), rows |-> singles(7)],
    \* 5 rows, then a row of 2 * term_per_row + 1 given upper half first
    [meta |-> meta_of(7, <<"G","5">>),
     rows |-> singles(5)
                \o terminals(<<"F">>, <<"X">>, <<>>, term_per_row + 1, 2 * term_per_row + 1)
                \o terminals(<<"F">>, <<"X">>, <<>>, 1, term_per_row)] }

SheetLists == UNION {[1..n -> SheetInputs] : n \in 1..MaxSheets}

PdfInit ==
    /\ pc = "sheet"
    /\ error = "none"
    /\ ParseStart
    /\ PdfStart
    /\ BracketStart
    /\ sheets_list \in SheetLists

NextPdf ==
    \/ StartSheet
    \/ NextGroup
    \/ PageBreak
    \/ DrawChunk
    \/ EndSheet
    \/ Save

SpecPdf == PdfInit /\ [][NextPdf]_vars

---------------------------------------------------------------------------
(* Reference definitions for the layout properties                         *)

CeilDiv(a, b) == (a + b - 1) \div b

\* how often record t occurs in sequence q
Count(q, t) == Cardinality({i \in 1..Len(q) : q[i] = t})

RECURSIVE Flatten(_)
Flatten(qs) == IF qs = <<>> THEN <<>> ELSE Head(qs) \o Flatten(Tail(qs))

RowIds(rows) == {rows[i].RowID : i \in 1..Len(rows)}

RECURSIVE SumOver(_, _, _)
SumOver(S, rows, n) ==
    IF S = {} THEN 0
    ELSE LET rid == CHOOSE x \in S : TRUE
         IN  CeilDiv(Cardinality({i \in 1..Len(rows) : rows[i].RowID = rid}), n)
                + SumOver(S \ {rid}, rows, n)

\* the chunk rows of a sheet: per row id, its terminals in lots of n
ChunkRows(rows, n) == SumOver(RowIds(rows), rows, n)

RECURSIVE PagesBefore(_)
PagesBefore(s) ==
    IF s = 0 THEN 0
    ELSE PagesBefore(s - 1) + CeilDiv(ChunkRows(sheets_list[s].rows, term_per_row), 6)

\* the pages of the canvas, the one being drawn last
AllPages == IF page = BlankPage THEN pages ELSE Append(pages, page)

(* C7: pagination boundary.  With N terminal slots per page row a row of   *)
(* L >= 1 terminals is split into ceil(L/N) consecutive chunks, all of     *)
(* length N but the last, which has between 1 and N; in order they make up *)
(* the row's terminals sorted by number; L = N+1 gives chunks of N and 1.  *)
C7_PaginationBoundary ==
    pc = "chunk" =>
        LET L == Len(terms)
            N == term_per_row
            rid == terms[1].RowID
            row == SelectSeq(sheets_list[si].rows, LAMBDA t : t.RowID = rid)
        IN  /\ N >= 1 /\ L >= 1
            /\ Len(chunks) = CeilDiv(L, N)
            /\ \A k \in 1..(Len(chunks) - 1) : Len(chunks[k]) = N
            /\ Len(chunks[Len(chunks)]) \in 1..N
            /\ Flatten(chunks) = terms
            /\ Len(row) = L
            /\ \A i \in 1..L : Count(terms, terms[i]) = Count(row, terms[i])
            /\ \A i \in 1..(L - 1) : sort_key(terms[i]) <= sort_key(terms[i + 1])
            /\ L = N + 1 => Len(chunks) = 2 /\ Len(chunks[1]) = N /\ Len(chunks[2]) = 1

\* a row of N+1 terminals, given after its upper half, in two chunks
C7_Witness ==
    /\ pc = "chunk"
    /\ Len(terms) = term_per_row + 1
    /\ Len(chunks) = 2
    /\ ci = 1

(* C8: empty sheet.  A sheet with no rows is rendered as one page holding  *)
(* the template alone, the run ends in no error, and the other sheets are  *)
(* rendered as without it.                                                 *)
C8_EmptySheet ==
    \A s \in 1..Len(sheets_list) :
        sheets_list[s].rows = <<>> =>
            /\ error = "none"
            /\ s < si =>
                /\ s <= Len(first_page)
                /\ first_page[s] = PagesBefore(s - 1) + s
                /\ pages[first_page[s]] =
                    [templates |-> <<template(sheets_list[s].meta.sheet, sheets_list[s].meta)>>,
                     rows |-> <<>>]

\* every page has at most 6 rows, row k of a page is drawn 105 pt below row
\* k-1 from height - 160 on, and between breaks the cursor is below the last
C9_Cursor ==
    /\ \A p \in 1..Len(AllPages) :
        /\ Len(AllPages[p].rows) <= 6
        /\ \A k \in 1..Len(AllPages[p].rows) :
            AllPages[p].rows[k].y = (PAGE_HEIGHT - 160 * PT) - 105 * PT * (k - 1)
    /\ pc \in {"group", "chunk"} =>
        /\ rows_on_page = Len(page.rows)
        /\ rows_on_page <= 6
        /\ y_curr = (PAGE_HEIGHT - 160 * PT) - 105 * PT * rows_on_page

\* with a chunk to draw, the step is a page break exactly when the page
\* holds 6 rows; the break ends the page, numbers the next one higher,
\* draws its template and resets cursor and row count; any other step
\* draws the chunk at the cursor on the same page
C9_Step ==
    (pc = "chunk" /\ vars' # vars) =>
        IF rows_on_page = 6
        THEN /\ pages' = Append(pages, page)
             /\ current_sheet_no' = current_sheet_no + 1
             /\ page' = [templates |-> <<template(current_sheet_no + 1, sheets_list[si].meta)>>,
                         rows |-> <<>>]
             /\ y_curr' = PAGE_HEIGHT - 160 * PT
             /\ rows_on_page' = 0
             /\ ci' = ci
        ELSE /\ pages' = pages
             /\ current_sheet_no' = current_sheet_no
             /\ page'.templates = page.templates
             /\ Len(page'.rows) = Len(page.rows) + 1
             /\ page'.rows[Len(page'.rows)].y = y_curr
             /\ rows_on_page' = rows_on_page + 1
             /\ ci' = ci + 1

(* C9: page-break rule.  A page holds at most 6 chunk rows; a break is     *)
(* emitted before a chunk exactly when the page holds 6; it increments the *)
(* sheet number, redraws the template, resets the cursor to height - 160   *)
(* and the row count to 0; between breaks the cursor is the top line minus *)
(* 105 per row drawn.                                                      *)
C9_PageBreakRule == []C9_Cursor /\ [][C9_Step]_vars

\* just after a break: a full page behind, the cursor at the top, the next
\* sheet number on the template
C9_Witness ==
    /\ pc = "chunk"
    /\ rows_on_page = 0
    /\ y_curr = top_line
    /\ Len(pages) >= 1
    /\ Len(pages[Len(pages)].rows) = 6
    /\ current_sheet_no = sheets_list[si].meta.sheet + 1
    /\ page.templates[1].sheet_num = current_sheet_no

(* C10: sheet-end flush.  Each sheet ends with its page flushed, so each   *)
(* sheet starts on a fresh page with its declared number and the cursor at *)
(* the top line; a sheet of C >= 1 chunk rows makes ceil(C/6) pages and    *)
(* the document has the sum of them.                                       *)
C10_SheetEndFlush ==
    /\ pc \in {"sheet", "done"} =>
        /\ page = BlankPage
        /\ Len(first_page) = si - 1
        /\ Len(pages) = PagesBefore(si - 1)
    /\ \A s \in 1..Len(first_page) :
        LET first == IF first_page[s] <= Len(pages) THEN pages[first_page[s]] ELSE page
        IN  /\ first_page[s] = PagesBefore(s - 1) + 1
            /\ first.templates = <<template(sheets_list[s].meta.sheet, sheets_list[s].meta)>>
            /\ first.rows # <<>> => first.rows[1].y = top_line
            /\ \A p \in (first_page[s] + 1)..Len(AllPages) :
                (s = Len(first_page) \/ p < first_page[s + 1]) =>
                    /\ AllPages[p].templates[1].sheet_num
                            = sheets_list[s].meta.sheet + (p - first_page[s])
                    /\ p <= Len(pages) => AllPages[p].rows # <<>>
    /\ pc = "group" /\ groups = <<>> => page.rows # <<>>

\* two sheets saved: 7 chunk rows on 2 pages, then 6 chunk rows on 1 page
C10_Witness ==
    /\ pc = "done"
    /\ Len(sheets_list) = 2
    /\ ChunkRows(sheets_list[1].rows, term_per_row) = 7
    /\ ChunkRows(sheets_list[2].rows, term_per_row) = 6
    /\ Len(pages) = 3
    /\ Len(pages[2].rows) = 1
    /\ Len(pages[3].rows) = 6

====
